---- MODULE Spec2Model ----
(***************************************************************************)
(* DancyDots: the animation loop (src/animation.js), the placement engine  *)
(* (canvas.js), the derived state (state.js) and the start-up code         *)
(* (main.js), as a state machine.                                          *)
(*                                                                         *)
(* Units.  Lengths are pixels and times are milliseconds, both integers;   *)
(* a quotient is truncated towards zero.  Ratios of the configuration are  *)
(* kept as integers: radiusRatio in percent, softness and dotSpacing in    *)
(* tenths.  JavaScript runs one handler at a time to completion: the       *)
(* variable call is the one active call (or idle), and a handler starts    *)
(* only when call is idle.  The loops of a handler are unrolled into one   *)
(* step per iteration, so that the order of its effects is visible.        *)
(***************************************************************************)
EXTENDS Integers, Sequences, FiniteSets, TLC

VARIABLES CONFIG, State, canvas, dots, lastUpdate, animationId,
          rafPending, rafNext, now, call, fault, started, hist

vars == <<CONFIG, State, canvas, dots, lastUpdate, animationId,
          rafPending, rafNext, now, call, fault, started, hist>>

-----------------------------------------------------------------------------
(* Bounds of the model *)

\* the clock stops after this many lattice steps
MaxFrames == 3
\* display frames arrive on a lattice of this many milliseconds
FrameMs == 50
\* a delivered frame is at most this many lattice steps after the previous one
MaxSkip == 2
\* largest count the user gives a layer, and largest k of an incremental call
MaxCount == 2
\* largest length of the dot list
MaxDots == 3
\* number of incremental resize calls made after the build
MaxResizes == 2

\* values of the FPS slider tried (its range is 10..60)
FpsValues == {10, 20}
\* velocities {dx, dy} a registered field function returns
FieldValues == {<<-1, 0>>, <<0, 1>>}
\* candidate coordinates Math.random() yields during placement
CandX == {20, 35, 38}
CandY == {10}
\* lightness variations (Math.random() - 0.5) * 10 tried
Variations == {3}

-----------------------------------------------------------------------------
(* JavaScript values *)

\* undefined and NaN in a slot that otherwise holds a number: a value outside
\* the range of every number of the model
Undefined == -1000000
\* the layer of a dot of grid mode
Null == -1
Idle == [fn |-> "idle"]

Quot(a, b) == IF a >= 0 THEN a \div b ELSE -((-a) \div b)
Max(a, b) == IF a >= b THEN a ELSE b
Sqrt(n) == CHOOSE r \in 0..n : r * r <= n /\ (r + 1) * (r + 1) > n

\* a JavaScript array is held as a sequence: array[index] is At(array, index)
\* when HasIndex(array, index), and undefined otherwise
HasIndex(array, index) == index \in 0..(Len(array) - 1)
At(array, index) == array[index + 1]

\* the array without the elements at the positions R (1-based), in order
Without(array, R) ==
  LET keep == DOMAIN array \ R
  IN [j \in 1..Cardinality(keep) |->
        array[CHOOSE n \in keep : Cardinality({m \in keep : m < n}) = j - 1]]

\* value || fallback for a number
OrElse(value, fallback) ==
  IF value = Undefined \/ value = 0 THEN fallback ELSE value

\* !value for a number or undefined
Not(value) == value = Undefined \/ value = 0

-----------------------------------------------------------------------------
(* config.js, fields.js, state.js *)

\* the field registry: what FIELDS[key] evaluates to
RegisteredFields == {"randomWalk", "shiver", "wave", "curlNoise", "multiWave",
                     "vortexLattice", "waveNoise", "standingWave", "cellular"}
FIELDS(key) ==
  IF key \in RegisteredFields THEN "function"
  ELSE IF key = "__proto__" THEN "object"
  ELSE "undefined"

\* config.js, the file the user edits, with two layers and small numbers:
\* lengths and speeds are integers, 1000 / fps is a whole number of
\* milliseconds, the strength of the vortex lattice is in thousandths, and
\* turnSpeed and restoreStrength are in tenths
DefaultConfig ==
  [mode |-> "layered", currentField |-> "randomWalk", fps |-> 20,
   dotSpacing |-> 10, collisionsEnabled |-> FALSE, globalSpeed |-> 1,
   grid |-> [spacing |-> 70, radius |-> 40, color |-> "#626900"],
   layers |-> << [count |-> 1, radiusRatio |-> 50, softness |-> 1,
                  speedMultiplier |-> 1, colors |-> <<"#2b1616", "#2e2a2a">>],
                 [count |-> 2, radiusRatio |-> 25, softness |-> 2,
                  speedMultiplier |-> 2, colors |-> <<"#2f523c", "#492441">>] >>,
   fields |-> [vortexLattice |-> [spacing |-> 40, radius |-> 20,
                                  strength |-> -100],
               randomWalk |-> [speed |-> 1, turnSpeed |-> 5],
               shiver |-> [amplitude |-> 1, restoreStrength |-> 5]]]

animationIntervalOf(fps) == Quot(1000, fps)

computeLayers(config, canvasHeight) ==
  [li \in 1..Len(config.layers) |->
     [count |-> config.layers[li].count,
      radiusRatio |-> config.layers[li].radiusRatio,
      softness |-> config.layers[li].softness,
      speedMultiplier |-> config.layers[li].speedMultiplier,
      colors |-> config.layers[li].colors,
      radius |-> Quot(canvasHeight * config.layers[li].radiusRatio, 100)]]

\* Math.round of the half-integer or integer twice / 2, twice >= 0
RoundHalf(twice) == (twice + 1) \div 2

\* the values v = spacing / 2, v < limit, v += spacing take, rounded
AxisCenters(spacing, limit) ==
  LET count == IF 2 * limit <= spacing THEN 0
               ELSE ((2 * limit - spacing - 1) \div (2 * spacing)) + 1
  IN [k \in 1..count |-> RoundHalf((2 * k - 1) * spacing)]

computeVortexCenters_mut(spacing, canvasWidth, canvasHeight) ==
  LET used == IF spacing > 0 THEN spacing ELSE 20
      xs == AxisCenters(used, canvasWidth)
      ys == AxisCenters(used, canvasHeight)
  IN [n \in 1..(Len(xs) * Len(ys)) |->
        [x |-> xs[((n - 1) \div Len(ys)) + 1],
         y |-> ys[((n - 1) % Len(ys)) + 1]]]
\* STATE.vortexCenters: empty unless spacing > 0
computeVortexCenters(spacing, canvasWidth, canvasHeight) ==
  IF spacing > 0
  THEN LET xs == AxisCenters(spacing, canvasWidth)
           ys == AxisCenters(spacing, canvasHeight)
       IN [n \in 1..(Len(xs) * Len(ys)) |->
             [x |-> xs[((n - 1) \div Len(ys)) + 1],
              y |-> ys[((n - 1) % Len(ys)) + 1]]]
  ELSE << >>

computeState(config, canvasWidth, canvasHeight) ==
  [canvasWidth |-> canvasWidth, canvasHeight |-> canvasHeight,
   animationInterval |-> animationIntervalOf(config.fps),
   layers |-> computeLayers(config, canvasHeight),
   vortexCenters |-> computeVortexCenters(config.fields.vortexLattice.spacing,
                                          canvasWidth, canvasHeight)]

\* main.js: the URL parameters mode and field applied to the configuration
applyUrlParams(config, mode, field) ==
  LET c1 == IF mode # "" /\ (mode = "grid" \/ mode = "layered")
            THEN [config EXCEPT !.mode = mode] ELSE config
  IN IF field # "" /\ FIELDS(field) # "undefined"
     THEN [c1 EXCEPT !.currentField = field] ELSE c1

-----------------------------------------------------------------------------
(* canvas.js: the dots of grid mode *)

CanvasWidth == 100
CanvasHeight == 20

\* a colour string: the configured hex colour with every channel shifted by
\* round(amount * 2.55) and clamped (adjustColorLightness); amount 0 is the
\* configured colour itself
ColorString(hex, amount) == [hex |-> hex, amount |-> amount]

newDot(x, y, layer, color, colorIndex) ==
  [x |-> x, y |-> y, x0 |-> x, y0 |-> y, vx |-> Undefined, vy |-> Undefined,
   layer |-> layer, color |-> color, colorIndex |-> colorIndex]

LoopCount_mut(start, limit, spacing) ==
  IF limit <= start THEN 0 ELSE (limit - start) \div spacing
\* the values of  for (v = start; v < limit; v += spacing)
LoopCount(start, limit, spacing) ==
  IF limit <= start THEN 0 ELSE ((limit - start - 1) \div spacing) + 1

buildUniformGrid(config, cv) ==
  LET spacing == config.grid.spacing
      startOffset == -Quot(cv.width * 2, 10)
      cols == LoopCount(startOffset, Quot(cv.width * 12, 10), spacing)
      rows == LoopCount(startOffset, Quot(cv.height * 12, 10), spacing)
  IN [n \in 1..(cols * rows) |->
        newDot(startOffset + ((n - 1) \div rows) * spacing,
               startOffset + ((n - 1) % rows) * spacing,
               Null, ColorString(config.grid.color, 0), Undefined)]

-----------------------------------------------------------------------------
(* canvas.js: layered placement *)

maxAttempts == 100

getPlacementRadius(layerIndex) ==
  IF ~HasIndex(State.layers, layerIndex) THEN 10
  ELSE LET layerConfig == At(State.layers, layerIndex)
       IN Quot(layerConfig.radius
                 * Max(10, OrElse(layerConfig.softness, 10))
                 * CONFIG.dotSpacing, 100)

checkOverlap_mut(x, y, radius, existingDots) ==
  \E n \in DOMAIN existingDots :
    LET dx == x - existingDots[n].x
        dy == y - existingDots[n].y
    IN dx * dx + dy * dy < radius * radius
checkOverlap(x, y, radius, existingDots) ==
  \E n \in DOMAIN existingDots :
    LET other == existingDots[n]
        otherRadius == getPlacementRadius(other.layer)
        dx == x - other.x
        dy == y - other.y
        minDist == radius + otherRadius
    IN dx * dx + dy * dy < minDist * minDist

\* the results of pickColorWithVariation(colors)
pickColorWithVariation(colors) ==
  IF Len(colors) = 0
  THEN {[color |-> ColorString(CONFIG.grid.color, 0), colorIndex |-> 0]}
  ELSE {[color |-> ColorString(colors[idx + 1], variation), colorIndex |-> idx] :
          idx \in 0..(Len(colors) - 1), variation \in Variations}

layerCount_mut(layerConfig) == layerConfig.count + 1
\* const count = layerConfig.count !== undefined ? layerConfig.count : 50
layerCount(layerConfig) == layerConfig.count

\* the next (layerIndex, i) for which the two for loops of buildLayeredDots
\* run their body, from (layerIndex, i) on; layerIndex = layers.length at the end
RECURSIVE nextSlot(_, _, _)
nextSlot(layers, layerIndex, i) ==
  IF layerIndex >= Len(layers) THEN <<layerIndex, 0>>
  ELSE IF i < layerCount(layers[layerIndex + 1]) THEN <<layerIndex, i>>
  ELSE nextSlot(layers, layerIndex + 1, 0)

\* while (!placed && attempts < maxAttempts)
whileRuns(c) == ~c.placed /\ c.attempts < maxAttempts

sameLayer_mut(dot, layerIndex) == TRUE
\* dots[i].layer === layerIndex
sameLayer(dot, layerIndex) == dot.layer = layerIndex

\* removeDotsFromLayer: the loop from the end of the list, from index i on
RECURSIVE removeLoop(_, _, _, _, _)
removeLoop_mut(list, i, removed, layerIndex, count) ==
  LET S == {n \in DOMAIN list : list[n].layer = layerIndex}
  IN Without(list, {n \in S : Cardinality({m \in S : m < n}) < count})
removeLoop(list, i, removed, layerIndex, count) ==
  IF i >= 0 /\ removed < count
  THEN IF sameLayer(list[i + 1], layerIndex)
       THEN removeLoop(SubSeq(list, 1, i) \o SubSeq(list, i + 2, Len(list)),
                       i - 1, removed + 1, layerIndex, count)
       ELSE removeLoop(list, i - 1, removed, layerIndex, count)
  ELSE list

-----------------------------------------------------------------------------
(* animation.js: collisions *)

getCollisionRadius(dot) ==
  IF dot.layer = Null THEN CONFIG.grid.radius
  ELSE IF ~HasIndex(State.layers, dot.layer) THEN CONFIG.grid.radius
  ELSE LET layerConfig == At(State.layers, dot.layer)
       IN Quot(layerConfig.radius
                 * Max(10, OrElse(layerConfig.softness, 10)) * 6, 100)

collisionsRun_mut == CONFIG.mode = "layered"
\* the two early returns of handleCollisions
collisionsRun == CONFIG.mode = "layered" /\ CONFIG.collisionsEnabled

\* if (!dot.vx) { dot.vx = 0; dot.vy = 0; }
initVelocity(dot) ==
  IF Not(dot.vx) THEN [dot EXCEPT !.vx = 0, !.vy = 0] ELSE dot

\* the body of the inner loop of handleCollisions for the pair dotA, dotB:
\* nx = dx / dist and ny = dy / dist appear only in products, which are
\* evaluated here as one quotient
resolvePair(dotA, dotB) ==
  LET radiusA == getCollisionRadius(dotA)
      radiusB == getCollisionRadius(dotB)
      dx == dotB.x - dotA.x
      dy == dotB.y - dotA.y
      distSq == dx * dx + dy * dy
      minDist == radiusA + radiusB
  IN IF distSq < minDist * minDist /\ distSq > 0
     THEN LET dist == Sqrt(distSq)
              overlap == minDist - dist
              pushX == Quot(dx * overlap, 2 * dist)
              pushY == Quot(dy * overlap, 2 * dist)
              a1 == initVelocity([dotA EXCEPT !.x = @ - pushX, !.y = @ - pushY])
              b1 == initVelocity([dotB EXCEPT !.x = @ + pushX, !.y = @ + pushY])
              relVelX == b1.vx - a1.vx
              relVelY == b1.vy - a1.vy
              relVelDotNDist == relVelX * dx + relVelY * dy
              impulseX == Quot(relVelDotNDist * dx, distSq)
              impulseY == Quot(relVelDotNDist * dy, distSq)
          IN << [a1 EXCEPT !.vx = @ + impulseX, !.vy = @ + impulseY],
                [b1 EXCEPT !.vx = @ - impulseX, !.vy = @ - impulseY] >>
     ELSE << dotA, dotB >>

\* whether the pair overlaps in the sense of handleCollisions
pairCollides(dotA, dotB) ==
  LET dx == dotB.x - dotA.x
      dy == dotB.y - dotA.y
      minDist == getCollisionRadius(dotA) + getCollisionRadius(dotB)
  IN dx * dx + dy * dy < minDist * minDist /\ dx * dx + dy * dy > 0

-----------------------------------------------------------------------------
(* animation.js: the loop *)

\* timestamp - lastUpdate >= STATE.animationInterval; the difference is NaN
\* and the comparison false when the timestamp is undefined
tickDue_mut(timestamp) == timestamp # Undefined
tickDue(timestamp) ==
  timestamp # Undefined /\ timestamp - lastUpdate >= State.animationInterval

\* dt = ((timestamp - lastUpdate) / 1000) * 60
deltaTime(timestamp) == Quot((timestamp - lastUpdate) * 60, 1000)

layerSpeed_mut(dot) ==
  IF CONFIG.mode = "layered" /\ dot.layer # Null
  THEN IF HasIndex(CONFIG.layers, dot.layer)
       THEN OrElse(At(CONFIG.layers, dot.layer).speedMultiplier, 1)
       ELSE 0
  ELSE 1
\* speed = CONFIG.layers[dot.layer]?.speedMultiplier || 1.0 in layered mode
layerSpeed(dot) ==
  IF CONFIG.mode = "layered" /\ dot.layer # Null
  THEN IF HasIndex(CONFIG.layers, dot.layer)
       THEN OrElse(At(CONFIG.layers, dot.layer).speedMultiplier, 1)
       ELSE 1
  ELSE 1

integrate_mut(dot, field, dt) ==
  [dot EXCEPT !.vx = field[1], !.vy = field[2],
              !.x = @ + field[1] * dt, !.y = @ + field[2] * dt,
              !.x0 = @ + field[1] * dt, !.y0 = @ + field[2] * dt]
\* the body of dots.forEach for one dot and the velocity the field returned
integrate(dot, field, dt) ==
  LET speed == layerSpeed(dot)
      vx == field[1] * speed
      vy == field[2] * speed
  IN [dot EXCEPT !.vx = vx, !.vy = vy, !.x = @ + vx * dt, !.y = @ + vy * dt]

animateCall(timestamp) ==
  [fn |-> "animate", pc |-> "entry", timestamp |-> timestamp,
   fieldFunction |-> "undefined", k |-> 0, i |-> 0, j |-> 0]

NoTick == [due |-> FALSE, advanced |-> {}, resolved |-> {},
           before |-> << >>, integrated |-> << >>, drawn |-> FALSE]

NoOp == [name |-> "none", layerIndex |-> Null, count |-> 0]

\* what the properties need to remember: the dots as they were created, the
\* progress of the running tick, the last two placement calls, the dot list
\* the last incremental call started from, how each dot of the last rebuild
\* was placed, and the number of incremental calls made so far
NoHist == [created |-> << >>, tick |-> NoTick, lastOp |-> NoOp, prevOp |-> NoOp,
           before |-> << >>, placement |-> << >>, resizes |-> 0]

lastPair_mut(i, j, len) == j = len - 1
\* the two for loops of handleCollisions end after the pair (i, j)
lastPair(i, j, len) == i = len - 2 /\ j = len - 1

\* all pairs the two loops of handleCollisions visit
AllPairs(len) == {p \in (0..(len - 1)) \X (0..(len - 1)) : p[1] < p[2]}

initAnimation ==
  /\ call = Idle /\ ~started
  /\ started' = TRUE
  /\ call' = animateCall(Undefined)
  /\ UNCHANGED <<CONFIG, State, canvas, dots, lastUpdate, animationId,
                 rafPending, rafNext, now, fault, hist>>

\* the browser delivers a display frame and runs the requested callback
Frame ==
  /\ call = Idle /\ rafPending # {}
  /\ \E skip \in 1..MaxSkip, id \in rafPending :
       /\ now + skip * FrameMs <= MaxFrames * FrameMs
       /\ now' = now + skip * FrameMs
       /\ rafPending' = rafPending \ {id}
       /\ call' = animateCall(now + skip * FrameMs)
  /\ UNCHANGED <<CONFIG, State, canvas, dots, lastUpdate, animationId,
                 rafNext, fault, started, hist>>

animateEntry ==
  /\ call.fn = "animate" /\ call.pc = "entry"
  /\ call' = [call EXCEPT !.fieldFunction = FIELDS(CONFIG.currentField),
                          !.pc = IF tickDue(call.timestamp)
                                 THEN "forEach" ELSE "request"]
  /\ hist' = [hist EXCEPT !.tick = [NoTick EXCEPT
                                      !.due = tickDue(call.timestamp),
                                      !.before = dots]]
  /\ UNCHANGED <<CONFIG, State, canvas, dots, lastUpdate, animationId,
                 rafPending, rafNext, now, fault, started>>

\* one iteration of dots.forEach
animateForEach ==
  /\ call.fn = "animate" /\ call.pc = "forEach" /\ call.k < Len(dots)
  /\ call.fieldFunction = "function"
  /\ \E field \in FieldValues :
       dots' = [dots EXCEPT ![call.k + 1] =
                  integrate(@, field, deltaTime(call.timestamp))]
  /\ call' = [call EXCEPT !.k = @ + 1]
  /\ hist' = [hist EXCEPT !.tick.advanced = @ \cup {call.k}]
  /\ UNCHANGED <<CONFIG, State, canvas, lastUpdate, animationId,
                 rafPending, rafNext, now, fault, started>>

\* fieldFunction(...) when FIELDS[CONFIG.currentField] is not a function:
\* a TypeError leaves animate, and nothing catches it
animateThrow ==
  /\ call.fn = "animate" /\ call.pc = "forEach" /\ call.k < Len(dots)
  /\ call.fieldFunction # "function"
  /\ call' = Idle
  /\ fault' = TRUE
  /\ UNCHANGED <<CONFIG, State, canvas, dots, lastUpdate, animationId,
                 rafPending, rafNext, now, started, hist>>

\* handleCollisions(dots): the early returns, or the first pair
handleCollisions ==
  /\ call.fn = "animate" /\ call.pc = "forEach" /\ call.k >= Len(dots)
  /\ call' = [call EXCEPT !.pc = IF collisionsRun /\ Len(dots) >= 2
                                 THEN "pair" ELSE "drawScene",
                          !.i = 0, !.j = 1]
  /\ hist' = [hist EXCEPT !.tick.integrated = dots]
  /\ UNCHANGED <<CONFIG, State, canvas, dots, lastUpdate, animationId,
                 rafPending, rafNext, now, fault, started>>

\* one iteration of the inner loop of handleCollisions
handleCollisionsPair ==
  /\ call.fn = "animate" /\ call.pc = "pair"
  /\ LET len == Len(dots)
         pair == resolvePair(dots[call.i + 1], dots[call.j + 1])
         last == lastPair(call.i, call.j, len)
     IN /\ dots' = [dots EXCEPT ![call.i + 1] = pair[1],
                                ![call.j + 1] = pair[2]]
        /\ call' = IF last THEN [call EXCEPT !.pc = "drawScene"]
                   ELSE IF call.j = len - 1
                        THEN [call EXCEPT !.i = @ + 1, !.j = call.i + 2]
                        ELSE [call EXCEPT !.j = @ + 1]
  /\ hist' = [hist EXCEPT !.tick.resolved = @ \cup {<<call.i, call.j>>}]
  /\ UNCHANGED <<CONFIG, State, canvas, lastUpdate, animationId,
                 rafPending, rafNext, now, fault, started>>

\* drawScene(dots); lastUpdate = timestamp
animateDraw ==
  /\ call.fn = "animate" /\ call.pc = "drawScene"
  /\ lastUpdate' = call.timestamp
  /\ call' = [call EXCEPT !.pc = "request"]
  /\ hist' = [hist EXCEPT !.tick.drawn = TRUE]
  /\ UNCHANGED <<CONFIG, State, canvas, dots, animationId,
                 rafPending, rafNext, now, fault, started>>

\* animationId = requestAnimationFrame(animate)
animateRequest_mut ==
  /\ call.fn = "animate" /\ call.pc = "request"
  /\ animationId' = IF hist.tick.due THEN rafNext ELSE animationId
  /\ rafPending' = IF hist.tick.due THEN rafPending \cup {rafNext}
                   ELSE rafPending
  /\ rafNext' = IF hist.tick.due THEN rafNext + 1 ELSE rafNext
  /\ call' = Idle
  /\ UNCHANGED <<CONFIG, State, canvas, dots, lastUpdate, now, fault,
                 started, hist>>
\* animationId = requestAnimationFrame(animate), the last statement of animate
animateRequest ==
  /\ call.fn = "animate" /\ call.pc = "request"
  /\ animationId' = rafNext
  /\ rafPending' = rafPending \cup {rafNext}
  /\ rafNext' = rafNext + 1
  /\ call' = Idle
  /\ UNCHANGED <<CONFIG, State, canvas, dots, lastUpdate, now, fault,
                 started, hist>>

animate ==
  \/ animateEntry \/ animateForEach \/ animateThrow \/ handleCollisions
  \/ handleCollisionsPair \/ animateDraw \/ animateRequest

-----------------------------------------------------------------------------
(* ui.js: the controls that act on the running loop *)

\* the FPS slider
fpsInput ==
  /\ call = Idle /\ started
  /\ \E value \in FpsValues :
       /\ value # CONFIG.fps
       /\ CONFIG' = [CONFIG EXCEPT !.fps = value]
       /\ State' = [State EXCEPT !.animationInterval = animationIntervalOf(value)]
  /\ UNCHANGED <<canvas, dots, lastUpdate, animationId, rafPending, rafNext,
                 now, call, fault, started, hist>>

\* the collisions checkbox
collisionsChange ==
  /\ call = Idle /\ started
  /\ CONFIG' = [CONFIG EXCEPT !.collisionsEnabled = ~@]
  /\ UNCHANGED <<State, canvas, dots, lastUpdate, animationId, rafPending,
                 rafNext, now, call, fault, started, hist>>

-----------------------------------------------------------------------------
(* The running application: main() has applied the URL parameters and      *)
(* initCanvas has built the dots; initAnimation is about to be called.     *)

\* two of the dot lists buildLayeredDots returns for DefaultConfig; in both
\* the third dot was placed after it exhausted its attempts
LayeredBuilds ==
  { << newDot(20, 10, 0, ColorString("#2b1616", 3), 0),
       newDot(35, 10, 1, ColorString("#2f523c", 3), 0),
       newDot(38, 10, 1, ColorString("#492441", 3), 1) >>,
    << newDot(20, 10, 0, ColorString("#2e2a2a", 3), 1),
       newDot(35, 10, 1, ColorString("#2f523c", 3), 0),
       newDot(20, 10, 1, ColorString("#2f523c", 3), 0) >> }

\* the URL parameters tried; "" is an absent parameter
UrlModes == {"", "grid"}
UrlFields == {"", "nosuch", "__proto__"}

Init ==
  /\ \E mode \in UrlModes, field \in UrlFields :
       CONFIG = applyUrlParams(DefaultConfig, mode, field)
  /\ canvas = [width |-> CanvasWidth, height |-> CanvasHeight]
  /\ State = computeState(CONFIG, canvas.width, canvas.height)
  /\ dots \in (IF CONFIG.mode = "layered" THEN LayeredBuilds
               ELSE {buildUniformGrid(CONFIG, canvas)})
  /\ lastUpdate = 0
  /\ animationId = Undefined
  /\ rafPending = {}
  /\ rafNext = 1
  /\ now = 0
  /\ call = Idle
  /\ fault = FALSE
  /\ started = FALSE
  /\ hist = [NoHist EXCEPT !.created = dots]

Next == initAnimation \/ Frame \/ animate \/ fpsInput \/ collisionsChange

Spec == Init /\ [][Next]_vars

-----------------------------------------------------------------------------
(* canvas.js: the handlers that build and resize the dot list *)

buildCall(layers) ==
  LET slot == nextSlot(layers, 0, 0)
  IN [fn |-> "buildLayeredDots",
      pc |-> IF slot[1] >= Len(layers) THEN "return" ELSE "while",
      newDots |-> << >>, layerIndex |-> slot[1], i |-> slot[2],
      attempts |-> 0, placed |-> FALSE, x |-> Undefined, y |-> Undefined,
      log |-> << >>]

\* dots = buildDotGrid(): the layered build runs attempt by attempt; the
\* uniform grid is built in one step when its loops end, which they do when
\* the spacing is positive, and otherwise the loops are entered and run on
buildDotGrid(config, cv) ==
  IF config.mode = "layered"
  THEN /\ call' = buildCall(computeLayers(config, cv.height))
       /\ UNCHANGED <<dots, hist>>
  ELSE IF config.grid.spacing > 0
  THEN /\ dots' = buildUniformGrid(config, cv)
       /\ call' = Idle
       /\ hist' = [NoHist EXCEPT !.created = dots',
                     !.lastOp = [NoOp EXCEPT !.name = "buildUniformGrid"]]
  ELSE /\ call' = [fn |-> "buildUniformGrid", pc |-> "test"]
       /\ UNCHANGED <<dots, hist>>

\* computeState(canvas.width, canvas.height); dots = buildDotGrid() for the
\* canvas size cv
rebuild_mut(cv) ==
  /\ canvas' = cv
  /\ buildDotGrid(CONFIG, cv)
  /\ UNCHANGED <<CONFIG, State, lastUpdate, animationId, rafPending, rafNext,
                 now, fault, started>>
rebuild(cv) ==
  /\ canvas' = cv
  /\ State' = computeState(CONFIG, cv.width, cv.height)
  /\ buildDotGrid(CONFIG, cv)
  /\ UNCHANGED <<CONFIG, lastUpdate, animationId, rafPending, rafNext, now,
                 fault, started>>

initCanvas ==
  /\ call = Idle /\ canvas.width = 0
  /\ rebuild([width |-> CanvasWidth, height |-> CanvasHeight])

\* one iteration of the while loop of buildLayeredDots or addDotsToLayer
placeAttempt ==
  /\ call.fn \in {"buildLayeredDots", "addDotsToLayer"} /\ call.pc = "while"
  /\ whileRuns(call)
  /\ \E x \in CandX, y \in CandY :
       call' = [call EXCEPT
                  !.x = x, !.y = y,
                  !.placed = ~checkOverlap(x, y,
                                getPlacementRadius(call.layerIndex),
                                IF call.fn = "buildLayeredDots"
                                THEN call.newDots ELSE dots),
                  !.attempts = @ + 1]
  /\ UNCHANGED <<CONFIG, State, canvas, dots, lastUpdate, animationId,
                 rafPending, rafNext, now, fault, started, hist>>

\* newDots.push({...}) of buildLayeredDots, and the loop headers up to the
\* next dot
buildPush ==
  /\ call.fn = "buildLayeredDots" /\ call.pc = "while" /\ ~whileRuns(call)
  /\ \E picked \in pickColorWithVariation(
                     At(State.layers, call.layerIndex).colors) :
       LET slot == nextSlot(State.layers, call.layerIndex, call.i + 1)
       IN call' = [call EXCEPT
                     !.newDots = Append(@, newDot(call.x, call.y,
                                   call.layerIndex, picked.color,
                                   picked.colorIndex)),
                     !.log = Append(@, [placed |-> call.placed,
                                        capped |-> call.attempts
                                                     >= maxAttempts]),
                     !.layerIndex = slot[1], !.i = slot[2],
                     !.attempts = 0, !.placed = FALSE,
                     !.x = Undefined, !.y = Undefined,
                     !.pc = IF slot[1] >= Len(State.layers)
                            THEN "return" ELSE "while"]
  /\ UNCHANGED <<CONFIG, State, canvas, dots, lastUpdate, animationId,
                 rafPending, rafNext, now, fault, started, hist>>

\* return newDots, assigned to dots by the caller
buildReturn ==
  /\ call.fn = "buildLayeredDots" /\ call.pc = "return"
  /\ dots' = call.newDots
  /\ call' = Idle
  /\ hist' = [NoHist EXCEPT !.created = call.newDots,
                !.lastOp = [NoOp EXCEPT !.name = "buildLayeredDots"],
                !.placement = call.log]
  /\ UNCHANGED <<CONFIG, State, canvas, lastUpdate, animationId, rafPending,
                 rafNext, now, fault, started>>

\* layer indexes and counts the incremental calls are made with
LayerArgs == 0..Len(CONFIG.layers)
CountArgs == 0..MaxCount

addDotsToLayer ==
  /\ call = Idle /\ canvas.width > 0 /\ hist.resizes < MaxResizes
  /\ \E layerIndex \in LayerArgs, count \in CountArgs :
       /\ Len(dots) + count <= MaxDots
       /\ call' = [fn |-> "addDotsToLayer",
                   pc |-> IF HasIndex(State.layers, layerIndex) /\ count > 0
                          THEN "while" ELSE "return",
                   layerIndex |-> layerIndex, count |-> count, i |-> 0,
                   attempts |-> 0, placed |-> FALSE,
                   x |-> Undefined, y |-> Undefined]
  /\ hist' = [NoHist EXCEPT !.created = dots, !.before = dots,
                            !.resizes = hist.resizes + 1]
  /\ UNCHANGED <<CONFIG, State, canvas, dots, lastUpdate, animationId,
                 rafPending, rafNext, now, fault, started>>

\* dots.push({...}) of addDotsToLayer
addPush ==
  /\ call.fn = "addDotsToLayer" /\ call.pc = "while" /\ ~whileRuns(call)
  /\ \E picked \in pickColorWithVariation(
                     At(State.layers, call.layerIndex).colors) :
       dots' = Append(dots, newDot(call.x, call.y, call.layerIndex,
                                   picked, Undefined))
  /\ call' = [call EXCEPT !.i = @ + 1, !.attempts = 0, !.placed = FALSE,
                          !.x = Undefined, !.y = Undefined,
                          !.pc = IF call.i + 1 < call.count
                                 THEN "while" ELSE "return"]
  /\ hist' = [hist EXCEPT !.created = dots']
  /\ UNCHANGED <<CONFIG, State, canvas, lastUpdate, animationId, rafPending,
                 rafNext, now, fault, started>>

addReturn ==
  /\ call.fn = "addDotsToLayer" /\ call.pc = "return"
  /\ call' = Idle
  /\ hist' = [hist EXCEPT !.lastOp = [name |-> "addDotsToLayer",
                                      layerIndex |-> call.layerIndex,
                                      count |-> call.count]]
  /\ UNCHANGED <<CONFIG, State, canvas, dots, lastUpdate, animationId,
                 rafPending, rafNext, now, fault, started>>

removeDotsFromLayer ==
  /\ call = Idle /\ canvas.width > 0 /\ hist.resizes < MaxResizes
  /\ \E layerIndex \in LayerArgs, count \in CountArgs :
       /\ dots' = removeLoop(dots, Len(dots) - 1, 0, layerIndex, count)
       /\ hist' = [NoHist EXCEPT
                     !.created = dots',
                     !.lastOp = [name |-> "removeDotsFromLayer",
                                 layerIndex |-> layerIndex, count |-> count],
                     !.prevOp = hist.lastOp,
                     !.before = dots,
                     !.resizes = hist.resizes + 1]
  /\ UNCHANGED <<CONFIG, State, canvas, lastUpdate, animationId, rafPending,
                 rafNext, now, call, fault, started>>

\* the placement engine on its own: config.js as the user edited it (the
\* layer counts), before initCanvas
LayerCounts ==
  {c \in [1..Len(DefaultConfig.layers) -> 0..MaxCount] :
     c[1] + c[2] <= MaxDots}

InitPlace ==
  /\ \E mode \in UrlModes, counts \in LayerCounts :
       CONFIG = [applyUrlParams(DefaultConfig, mode, "") EXCEPT
                   !.layers = [li \in DOMAIN @ |->
                                 [@[li] EXCEPT !.count = counts[li]]]]
  /\ canvas = [width |-> 0, height |-> 0]
  /\ State = [canvasWidth |-> 0, canvasHeight |-> 0,
              animationInterval |-> animationIntervalOf(CONFIG.fps),
              layers |-> << >>, vortexCenters |-> << >>]
  /\ dots = << >>
  /\ lastUpdate = 0
  /\ animationId = Undefined
  /\ rafPending = {}
  /\ rafNext = 1
  /\ now = 0
  /\ call = Idle
  /\ fault = FALSE
  /\ started = FALSE
  /\ hist = NoHist

NextPlace == initCanvas \/ placeAttempt \/ buildPush \/ buildReturn

SpecPlace == InitPlace /\ [][NextPlace]_vars

\* the configuration with one dot in each layer, and two of the dot lists
\* buildLayeredDots returns for it
ResizeConfig ==
  [DefaultConfig EXCEPT !.layers = [li \in DOMAIN @ |->
                                      [@[li] EXCEPT !.count = 1]]]
ResizeBuilds ==
  { << newDot(20, 10, 0, ColorString("#2b1616", 3), 0),
       newDot(35, 10, 1, ColorString("#2f523c", 3), 0) >>,
    << newDot(38, 10, 0, ColorString("#2e2a2a", 3), 1),
       newDot(38, 10, 1, ColorString("#492441", 3), 1) >> }

\* the incremental calls on their own: the application after initCanvas has
\* built the dots of ResizeConfig
InitResize ==
  /\ CONFIG = ResizeConfig
  /\ canvas = [width |-> CanvasWidth, height |-> CanvasHeight]
  /\ State = computeState(CONFIG, canvas.width, canvas.height)
  /\ dots \in ResizeBuilds
  /\ lastUpdate = 0
  /\ animationId = Undefined
  /\ rafPending = {}
  /\ rafNext = 1
  /\ now = 0
  /\ call = Idle
  /\ fault = FALSE
  /\ started = FALSE
  /\ hist = [NoHist EXCEPT !.created = dots]

NextResize ==
  \/ addDotsToLayer \/ placeAttempt \/ addPush \/ addReturn
  \/ removeDotsFromLayer

SpecResize == InitResize /\ [][NextResize]_vars

-----------------------------------------------------------------------------
(* Properties of the animation loop *)

AllDots == 0..(Len(dots) - 1)
InAnimate(pcs) == call.fn = "animate" /\ call.pc \in pcs

\* C1: within a call of animate the dots and lastUpdate change only if the
\* timestamp is defined and timestamp - lastUpdate >= STATE.animationInterval,
\* and two consecutive values of lastUpdate are at least that interval apart.
C1_FrameLimiting ==
  [][(call.fn = "animate" /\ (dots' # dots \/ lastUpdate' # lastUpdate))
       => /\ call.timestamp # Undefined
          /\ call.timestamp - lastUpdate >= State.animationInterval
          /\ (lastUpdate' # lastUpdate
                => lastUpdate' - lastUpdate >= State.animationInterval)]_vars

\* a frame that came too early after an executed tick, about to be rescheduled
C1_Witness ==
  /\ InAnimate({"request"}) /\ call.timestamp # Undefined
  /\ ~hist.tick.due /\ lastUpdate > 0
  /\ call.timestamp - lastUpdate < State.animationInterval

\* C2: whoever reads the dot list (drawScene, the request of the next frame,
\* a handler that starts when the call stack is empty, the next animate) finds
\* every dot advanced or none, and every pair visited or none; drawScene runs
\* on a fully integrated and fully resolved list, and the frame after an
\* executed tick is requested after drawScene.
C2_TicksNeverOverlap ==
  /\ (call = Idle \/ InAnimate({"entry", "drawScene", "request"}))
       => /\ hist.tick.advanced \in {{}, AllDots}
          /\ hist.tick.resolved \in {{}, AllPairs(Len(dots))}
  /\ InAnimate({"drawScene"})
       => /\ hist.tick.advanced = AllDots
          /\ collisionsRun => hist.tick.resolved = AllPairs(Len(dots))
  /\ (InAnimate({"request"}) /\ hist.tick.due) => hist.tick.drawn

\* drawScene is about to run after three pairs were visited, one of them moved
C2_Witness ==
  /\ InAnimate({"drawScene"}) /\ Len(dots) = 3
  /\ hist.tick.resolved = AllPairs(3)
  /\ dots # hist.tick.integrated

\* C3: with an unregistered CONFIG.currentField, once a tick was due on a
\* non-empty dot list, no fault has left animate, the next frame is requested,
\* and every dot has velocity zero and the position it had before the tick.
C3_MissingFieldIsNeutral ==
  (/\ call = Idle /\ started /\ hist.tick.due /\ Len(dots) > 0
   /\ CONFIG.currentField \notin RegisteredFields)
    => /\ ~fault
       /\ rafPending # {}
       /\ \A n \in DOMAIN dots :
            /\ dots[n].vx = 0 /\ dots[n].vy = 0
            /\ dots[n].x = hist.tick.before[n].x
            /\ dots[n].y = hist.tick.before[n].y

\* C4: a tick leaves the home position, the layer, the colour, the palette
\* index, the number and the order of the dots as they were created.
C4_TickFrame ==
  /\ Len(dots) = Len(hist.created)
  /\ \A n \in DOMAIN dots :
       /\ dots[n].x0 = hist.created[n].x0 /\ dots[n].y0 = hist.created[n].y0
       /\ dots[n].layer = hist.created[n].layer
       /\ dots[n].color = hist.created[n].color
       /\ dots[n].colorIndex = hist.created[n].colorIndex

\* a tick with collisions has run and moved a dot away from its home position
C4_Witness ==
  /\ InAnimate({"request"}) /\ hist.tick.due /\ hist.tick.resolved # {}
  /\ dots # hist.tick.integrated
  /\ \E n \in DOMAIN dots : dots[n].x # dots[n].x0

\* C5: the step that resolves a pair leaves the sum of the two velocities
\* unchanged, whatever velocities the two dots hold when the pair is reached.
C5_MomentumConserved ==
  [][InAnimate({"pair"})
       => LET a == call.i + 1
              b == call.j + 1
          IN /\ dots'[a].vx + dots'[b].vx = dots[a].vx + dots[b].vx
             /\ dots'[a].vy + dots'[b].vy = dots[a].vy + dots[b].vy]_vars

\* C6: when handleCollisions returns in grid mode or with the toggle off, the
\* dots are exactly as the integration loop left them.
C6_CollisionsGated ==
  (InAnimate({"drawScene"}) /\ ~(CONFIG.mode = "layered"
                                  /\ CONFIG.collisionsEnabled))
    => dots = hist.tick.integrated

\* layered mode, toggle off, and two dots overlap when handleCollisions returns
C6_Witness ==
  /\ InAnimate({"drawScene"})
  /\ CONFIG.mode = "layered" /\ ~CONFIG.collisionsEnabled
  /\ \E p \in AllPairs(Len(dots)) : pairCollides(dots[p[1] + 1], dots[p[2] + 1])

-----------------------------------------------------------------------------
(* Properties of the placement engine *)

LayerDots(list, layerIndex) ==
  {n \in DOMAIN list : list[n].layer = layerIndex}
Built == call = Idle /\ hist.lastOp.name = "buildLayeredDots"

\* the dot at position n is closer to an earlier dot of the list than the sum
\* of their placement radii
TooClose(list, n) ==
  \E m \in 1..(n - 1) :
    LET dx == list[n].x - list[m].x
        dy == list[n].y - list[m].y
        minDist == getPlacementRadius(list[n].layer)
                     + getPlacementRadius(list[m].layer)
    IN dx * dx + dy * dy < minDist * minDist

\* C7: the list a layered rebuild returns holds, for every configured layer
\* with count N (0 included), exactly N dots with that layer's index and no
\* other dot, whether or not a dot exhausted its 100 attempts, and no fault
\* was raised.
C7_ExactCount ==
  Built => /\ ~fault
           /\ \A li \in DOMAIN CONFIG.layers :
                Cardinality(LayerDots(dots, li - 1)) = CONFIG.layers[li].count
           /\ \A n \in DOMAIN dots : HasIndex(CONFIG.layers, dots[n].layer)

\* a rebuild with an empty first layer whose second dot exhausted its attempts
C7_Witness ==
  /\ Built /\ CONFIG.layers[1].count = 0 /\ CONFIG.layers[2].count = 2
  /\ Len(dots) = 2
  /\ hist.placement[2].capped /\ ~hist.placement[2].placed

\* C8: in the list a layered rebuild returns, a dot whose candidate was
\* accepted is at least the sum of the two placement radii away from every
\* dot placed before it, of its own or of an earlier layer; a dot that is
\* closer was pushed unplaced after 100 attempts.
C8_MinDistance ==
  Built => \A n \in DOMAIN dots :
             /\ hist.placement[n].placed => ~TooClose(dots, n)
             /\ TooClose(dots, n) => /\ ~hist.placement[n].placed
                                     /\ hist.placement[n].capped

\* a rebuild of three dots: the second accepted next to a dot of the earlier
\* layer, the third pushed on top of it after 100 rejected candidates
C8_Witness ==
  /\ Built /\ Len(dots) = 3
  /\ dots[1].layer = 0 /\ dots[2].layer = 1
  /\ hist.placement[2].placed /\ ~TooClose(dots, 2)
  /\ ~hist.placement[3].placed /\ TooClose(dots, 3)

\* C9: removeDotsFromLayer(i, k) called right after addDotsToLayer(i, k)
\* returned, for a layer i that exists, leaves the dot list the add started
\* from: the same dots in the same order.
C9_RoundTrip ==
  [][(/\ hist.lastOp.name = "addDotsToLayer"
      /\ hist'.lastOp.name = "removeDotsFromLayer"
      /\ hist'.lastOp.layerIndex = hist.lastOp.layerIndex
      /\ hist'.lastOp.count = hist.lastOp.count
      /\ HasIndex(State.layers, hist.lastOp.layerIndex))
       => dots' = hist.before]_vars

\* one dot was added to a layer that already had dots, and removed again
C9_Witness ==
  /\ call = Idle /\ hist.lastOp.name = "removeDotsFromLayer"
  /\ hist.prevOp = [hist.lastOp EXCEPT !.name = "addDotsToLayer"]
  /\ hist.lastOp.count = 1 /\ HasIndex(State.layers, hist.lastOp.layerIndex)
  /\ Len(hist.before) = 3 /\ Len(dots) = 2
  /\ LayerDots(dots, hist.lastOp.layerIndex) # {}

\* the positions removeDotsFromLayer(layerIndex, count) is to remove: the
\* last min(count, number of dots of the layer) dots of the layer
LastOfLayer(list, layerIndex, count) ==
  {n \in LayerDots(list, layerIndex) :
     Cardinality({m \in LayerDots(list, layerIndex) : m > n}) < count}

\* C10: removeDotsFromLayer(i, k) removes the last min(k, number of layer-i
\* dots) dots of layer i and keeps every other dot, unchanged and in the same
\* order; asking for more than the layer holds empties the layer without a
\* fault.
C10_StackRemoval ==
  (call = Idle /\ hist.lastOp.name = "removeDotsFromLayer")
    => /\ ~fault
       /\ dots = Without(hist.before,
                         LastOfLayer(hist.before, hist.lastOp.layerIndex,
                                     hist.lastOp.count))

\* two dots were asked of a layer that held one, at the head of the list
C10_Witness ==
  /\ call = Idle /\ hist.lastOp.name = "removeDotsFromLayer"
  /\ hist.lastOp.count = 2
  /\ LayerDots(hist.before, hist.lastOp.layerIndex) = {1}
  /\ Len(hist.before) = 3 /\ Len(dots) = 2

-----------------------------------------------------------------------------
(* canvas.js, ui.js: the handlers that recompute the derived state *)

\* sizes the container takes when the window is resized
CanvasSizes == {[width |-> 100, height |-> 20], [width |-> 60, height |-> 40],
                [width |-> 100, height |-> 100]}
\* values of a layer's size slider, in percent of the canvas height
RadiusValues == {25, 50}

\* the listener of the window's resize event
windowResize ==
  /\ call = Idle /\ canvas.width > 0
  /\ \E size \in CanvasSizes : size # canvas /\ rebuild(size)

\* refresh(), as the controls call it that change no other setting here
refresh ==
  /\ call = Idle /\ canvas.width > 0
  /\ rebuild(canvas)

\* the size slider of a layer: CONFIG.layers[index].radiusRatio = val / 100;
\* refresh()
radiusOnChange ==
  /\ call = Idle /\ canvas.width > 0
  /\ \E index \in 0..(Len(CONFIG.layers) - 1), val \in RadiusValues :
       /\ val # At(CONFIG.layers, index).radiusRatio
       /\ CONFIG' = [CONFIG EXCEPT !.layers[index + 1].radiusRatio = val]
  /\ State' = computeState(CONFIG', canvas.width, canvas.height)
  /\ buildDotGrid(CONFIG', canvas)
  /\ UNCHANGED <<canvas, lastUpdate, animationId, rafPending, rafNext, now,
                 fault, started>>

\* config.js with one dot in the first layer and none in the second, in
\* either mode, before initCanvas
DeriveConfig ==
  [DefaultConfig EXCEPT !.layers[1].count = 1, !.layers[2].count = 0]

InitDerive ==
  /\ \E mode \in UrlModes : CONFIG = applyUrlParams(DeriveConfig, mode, "")
  /\ canvas = [width |-> 0, height |-> 0]
  /\ State = [canvasWidth |-> 0, canvasHeight |-> 0,
              animationInterval |-> animationIntervalOf(CONFIG.fps),
              layers |-> << >>, vortexCenters |-> << >>]
  /\ dots = << >>
  /\ lastUpdate = 0
  /\ animationId = Undefined
  /\ rafPending = {}
  /\ rafNext = 1
  /\ now = 0
  /\ call = Idle
  /\ fault = FALSE
  /\ started = FALSE
  /\ hist = NoHist

NextDerive ==
  \/ initCanvas \/ windowResize \/ refresh \/ radiusOnChange
  \/ placeAttempt \/ buildPush \/ buildReturn

SpecDerive == InitDerive /\ [][NextDerive]_vars

\* C11: once initCanvas has run, and after every resize, refresh and change
\* of a layer's size slider, STATE.layers has one entry per layer of CONFIG
\* and the radius of each is the canvas height times the layer's radiusRatio.
C11_RadiusInSync ==
  canvas.width > 0
    => /\ Len(State.layers) = Len(CONFIG.layers)
       /\ \A li \in DOMAIN CONFIG.layers :
            State.layers[li].radius
              = Quot(canvas.height * CONFIG.layers[li].radiusRatio, 100)

\* the window was resized and the size slider of the first layer moved
C11_Witness ==
  /\ call = Idle /\ canvas.height = 40
  /\ CONFIG.layers[1].radiusRatio = 25 /\ CONFIG.layers[2].radiusRatio = 50
  /\ State.layers[1].radius = 10 /\ State.layers[2].radius = 20

-----------------------------------------------------------------------------
(* fields.js: the vortex lattice, on the centres computeState derived *)

\* Math.exp(-(d * d) / (R * R)) in thousandths, as 1 / (1 + t + t * t / 2)
\* for t = d2 / R2: 1000 at t = 0, decreasing, and positive
ExpNeg(d2, R2) ==
  Quot(1000 * 2 * R2 * R2, 2 * R2 * R2 + 2 * R2 * d2 + d2 * d2)

\* the for loop of vortexLatticeField over the centres from position n on;
\* dx and dy are in thousandths of a pixel per frame
RECURSIVE vortexLoop(_, _, _, _, _, _, _, _)
vortexLoop(x, y, centers, n, R, S, dx, dy) ==
  IF n > Len(centers) THEN [dx |-> dx, dy |-> dy]
  ELSE LET rx == x - centers[n].x
           ry == y - centers[n].y
           d2 == rx * rx + ry * ry
       IN IF d2 = 0 THEN vortexLoop(x, y, centers, n + 1, R, S, dx, dy)
          ELSE LET d == Sqrt(d2)
                   s == Quot(S * ExpNeg(d2, R * R), 1000)
               IN vortexLoop(x, y, centers, n + 1, R, S,
                             dx + Quot(s * (-ry), d), dy + Quot(s * rx, d))

vortexLatticeField(x, y) ==
  LET cfg == CONFIG.fields.vortexLattice
  IN vortexLoop(x, y, State.vortexCenters, 1, cfg.radius, cfg.strength, 0, 0)

\* the spacing config.js may hold, and the positions the field is asked at
VortexSpacings == {-40, 0, 20, 40}
ProbeX == {0, 10, 20, 30, 50}
ProbeY == {0, 10, 20}

\* animate asks the field for the velocity at a position
vortexLatticeCall ==
  /\ call = Idle /\ canvas.width > 0
  /\ \E x \in ProbeX, y \in ProbeY :
       call' = [fn |-> "vortexLatticeField", pc |-> "return", x |-> x, y |-> y,
                result |-> vortexLatticeField(x, y)]
  /\ UNCHANGED <<CONFIG, State, canvas, dots, lastUpdate, animationId,
                 rafPending, rafNext, now, fault, started, hist>>

vortexLatticeReturn ==
  /\ call.fn = "vortexLatticeField"
  /\ call' = Idle
  /\ UNCHANGED <<CONFIG, State, canvas, dots, lastUpdate, animationId,
                 rafPending, rafNext, now, fault, started, hist>>

InitVortex ==
  /\ \E spacing \in VortexSpacings :
       CONFIG = [applyUrlParams(DefaultConfig, "grid", "vortexLattice")
                   EXCEPT !.fields.vortexLattice.spacing = spacing]
  /\ canvas = [width |-> 0, height |-> 0]
  /\ State = [canvasWidth |-> 0, canvasHeight |-> 0,
              animationInterval |-> animationIntervalOf(CONFIG.fps),
              layers |-> << >>, vortexCenters |-> << >>]
  /\ dots = << >>
  /\ lastUpdate = 0
  /\ animationId = Undefined
  /\ rafPending = {}
  /\ rafNext = 1
  /\ now = 0
  /\ call = Idle
  /\ fault = FALSE
  /\ started = FALSE
  /\ hist = NoHist

NextVortex ==
  \/ initCanvas
  \/ windowResize
  \/ vortexLatticeCall
  \/ vortexLatticeReturn

SpecVortex == InitVortex /\ [][NextVortex]_vars

\* C12: when the configured vortex spacing is zero or negative, the centre
\* list computeState derives is empty (its computation ends), and the vortex
\* lattice field returns the velocity {dx: 0, dy: 0} at every position.
C12_DegenerateVortex ==
  (canvas.width > 0 /\ CONFIG.fields.vortexLattice.spacing <= 0)
    => /\ State.vortexCenters = << >>
       /\ call.fn = "vortexLatticeField" => call.result = [dx |-> 0, dy |-> 0]

\* the field was asked on a resized canvas under a negative spacing
C12_Witness ==
  /\ CONFIG.fields.vortexLattice.spacing < 0
  /\ canvas = [width |-> 60, height |-> 40]
  /\ State.vortexCenters = << >>
  /\ call.fn = "vortexLatticeField" /\ call.x = 20 /\ call.y = 20
  /\ call.result = [dx |-> 0, dy |-> 0]

-----------------------------------------------------------------------------
(* fields.js: the noise kernel *)

\* JavaScript numbers are IEEE doubles; hash3 multiplies 32-bit integers far
\* beyond the 53 bits a double holds exactly, so its products are computed
\* here on natural numbers of LimbCount limbs in base LimbBase and rounded to
\* 53 significant bits, to nearest, ties to even, as each JavaScript
\* operation rounds
LimbBase == 16384
LimbBits == 14
LimbCount == 8
Limbs == 0..(LimbCount - 1)
Mantissa == 53

\* the big number of a natural number below 2^31
BigOf(k) ==
  [l \in Limbs |-> IF l = 0 THEN k % LimbBase
                   ELSE IF l = 1 THEN (k \div LimbBase) % LimbBase
                   ELSE IF l = 2 THEN k \div (LimbBase * LimbBase)
                   ELSE 0]

\* the big number of the column sums raw, carries propagated from limb l on
RECURSIVE BigCarry(_, _, _)
BigCarry(raw, l, carry) ==
  IF l = LimbCount THEN raw
  ELSE LET sum == raw[l] + carry
       IN BigCarry([raw EXCEPT ![l] = sum % LimbBase], l + 1,
                   sum \div LimbBase)

BigAdd(A, B) == BigCarry([l \in Limbs |-> A[l] + B[l]], 0, 0)

\* A - B for A >= B: the limbs of B are borrowed from the limb above
RECURSIVE BigBorrow(_, _, _, _)
BigBorrow(A, B, l, borrow) ==
  IF l = LimbCount THEN A
  ELSE LET diff == A[l] - B[l] - borrow
       IN IF diff < 0
          THEN BigBorrow([A EXCEPT ![l] = diff + LimbBase], B, l + 1, 1)
          ELSE BigBorrow([A EXCEPT ![l] = diff], B, l + 1, 0)

BigSub(A, B) == BigBorrow(A, B, 0, 0)

BigLess(A, B) ==
  \E l \in Limbs : A[l] < B[l] /\ \A m \in Limbs : m > l => A[m] = B[m]

\* A times a natural number below 2^31
BigMul(A, k) ==
  LET K == BigOf(k)
  IN BigCarry([l \in Limbs |->
                 A[l] * K[0]
                 + (IF l >= 1 THEN A[l - 1] * K[1] ELSE 0)
                 + (IF l >= 2 THEN A[l - 2] * K[2] ELSE 0)], 0, 0)

\* the number of significant bits of A
BitLen(A) ==
  IF \A l \in Limbs : A[l] = 0 THEN 0
  ELSE LET top == CHOOSE l \in Limbs :
                    A[l] # 0 /\ \A m \in Limbs : m > l => A[m] = 0
       IN LimbBits * top + Cardinality({b \in 0..(LimbBits - 1) : 2^b <= A[top]})

BigBit(A, e) == (A[e \div LimbBits] \div 2^(e % LimbBits)) % 2
BigPow2(e) ==
  [l \in Limbs |-> IF l = e \div LimbBits THEN 2^(e % LimbBits) ELSE 0]
\* A mod 2^e
BigLow(A, e) ==
  [l \in Limbs |-> IF l < e \div LimbBits THEN A[l]
                   ELSE IF l = e \div LimbBits THEN A[l] % 2^(e % LimbBits)
                   ELSE 0]

\* the double nearest to the natural number A, ties to even
RoundDouble(A) ==
  LET e == BitLen(A) - Mantissa
  IN IF e <= 0 THEN A
     ELSE LET rest == BigLow(A, e)
              half == BigPow2(e - 1)
              trunc == [l \in Limbs |-> A[l] - rest[l]]
              up == \/ BigLess(half, rest)
                    \/ rest = half /\ BigBit(A, e) = 1
          IN IF up THEN BigAdd(trunc, BigPow2(e)) ELSE trunc

\* A mod 2^31
BigLow31(A) == A[0] + A[1] * LimbBase + (A[2] % 8) * LimbBase * LimbBase

\* ToInt32(n) << 13 as a 32-bit integer: the low 19 bits of n, signed
ShiftLeft13(n) ==
  LET u == n % 524288
  IN (IF u >= 262144 THEN u - 524288 ELSE u) * 8192

\* the bitwise exclusive or of two 32-bit integers in two's complement
RECURSIVE XorNat(_, _)
XorNat(x, y) ==
  IF x = 0 THEN y
  ELSE IF y = 0 THEN x
  ELSE ((x + y) % 2) + 2 * XorNat(x \div 2, y \div 2)
Xor(x, y) ==
  IF x >= 0 /\ y >= 0 THEN XorNat(x, y)
  ELSE IF x < 0 /\ y < 0 THEN XorNat(-1 - x, -1 - y)
  ELSE IF x < 0 THEN -1 - XorNat(-1 - x, y)
  ELSE -1 - XorNat(x, -1 - y)

\* (double) & 0x7fffffff of the double sign * V: its value mod 2^31
MaskInt31(negative, V) ==
  LET low == BigLow31(V)
  IN IF negative /\ low # 0 THEN (2147483647 - low) + 1 ELSE low

hash3(i, j, k) ==
  LET n0 == i + j * 57 + k * 131
      n == Xor(ShiftLeft13(n0), n0)
      a == IF n < 0 THEN -n ELSE n
      square == RoundDouble(BigMul(BigOf(a), a))
      inner == RoundDouble(BigAdd(RoundDouble(BigMul(square, 15731)),
                                  BigOf(789221)))
      product == RoundDouble(BigMul(inner, a))
      offset == BigOf(1376312589)
  IN IF n >= 0 THEN MaskInt31(FALSE, RoundDouble(BigAdd(product, offset)))
     ELSE IF BigLess(offset, product)
     THEN MaskInt31(TRUE, RoundDouble(BigSub(product, offset)))
     ELSE MaskInt31(FALSE, RoundDouble(BigSub(offset, product)))

\* hash3(ix, iy, it) / 1073741824.0: values are counted in units of
\* 1 / CornerScale, so that a corner value is the hash itself
CornerScale == 1073741824
corner(ix, iy, it) == hash3(ix, iy, it)

\* coordinates are in halves: fade of 0, 1/2 and 1 is 0, 1/2 and 1
fade(t) == (t * t * t * (3 * t * t - 15 * t + 20)) \div 8

\* a + (b - a) * t2 for t2 in halves, rounded down to a whole unit
lerp(a, b, t2) == a + (((b - a) * t2) \div 2)

noise3(x, y, t) ==
  LET xi == x \div 2
      yi == y \div 2
      ti == t \div 2
      u == fade(x - 2 * xi)
      v == fade(y - 2 * yi)
      w == fade(t - 2 * ti)
      x00 == lerp(corner(xi, yi, ti), corner(xi + 1, yi, ti), u)
      x10 == lerp(corner(xi, yi + 1, ti), corner(xi + 1, yi + 1, ti), u)
      x01 == lerp(corner(xi, yi, ti + 1), corner(xi + 1, yi, ti + 1), u)
      x11 == lerp(corner(xi, yi + 1, ti + 1), corner(xi + 1, yi + 1, ti + 1), u)
      y0 == lerp(x00, x10, v)
      y1 == lerp(x01, x11, v)
  IN lerp(y0, y1, w)

\* the lattice points hashed and the positions, in halves, noise3 is asked at
LatticeArgs == -2..2
NoiseArgs == -2..2

cornerCall ==
  /\ call = Idle
  /\ \E ix \in LatticeArgs, iy \in LatticeArgs, it \in LatticeArgs :
       call' = [fn |-> "corner", pc |-> "return", x |-> ix, y |-> iy, t |-> it,
                result |-> corner(ix, iy, it)]
  /\ UNCHANGED <<CONFIG, State, canvas, dots, lastUpdate, animationId,
                 rafPending, rafNext, now, fault, started, hist>>

noise3Call ==
  /\ call = Idle
  /\ \E x \in NoiseArgs, y \in NoiseArgs, t \in NoiseArgs :
       call' = [fn |-> "noise3", pc |-> "return", x |-> x, y |-> y, t |-> t,
                result |-> noise3(x, y, t)]
  /\ UNCHANGED <<CONFIG, State, canvas, dots, lastUpdate, animationId,
                 rafPending, rafNext, now, fault, started, hist>>

noiseReturn ==
  /\ call.fn \in {"corner", "noise3"}
  /\ call' = Idle
  /\ UNCHANGED <<CONFIG, State, canvas, dots, lastUpdate, animationId,
                 rafPending, rafNext, now, fault, started, hist>>

InitNoise ==
  /\ CONFIG = applyUrlParams(DefaultConfig, "", "")
  /\ canvas = [width |-> 0, height |-> 0]
  /\ State = [canvasWidth |-> 0, canvasHeight |-> 0,
              animationInterval |-> animationIntervalOf(CONFIG.fps),
              layers |-> << >>, vortexCenters |-> << >>]
  /\ dots = << >>
  /\ lastUpdate = 0
  /\ animationId = Undefined
  /\ rafPending = {}
  /\ rafNext = 1
  /\ now = 0
  /\ call = Idle
  /\ fault = FALSE
  /\ started = FALSE
  /\ hist = NoHist

NextNoise == cornerCall \/ noise3Call \/ noiseReturn

SpecNoise == InitNoise /\ [][NextNoise]_vars

\* C13: every corner value hash3(i, j, k) / 1073741824 and every value
\* noise3 returns, at lattice points and between them, is at least 0 and
\* below 1.
C13_NoiseInUnitInterval ==
  call.fn \in {"corner", "noise3"}
    => call.result >= 0 /\ call.result < CornerScale

-----------------------------------------------------------------------------
(* canvas.js: the uniform grid under every spacing *)

\* the grid spacing config.js may hold, and the values of the controls
GridSpacings == {-25, 0, 25, 30, 70}
SpacingValues == {25, 30}
ModeValues == {"grid", "layered"}

\* the mode dropdown: CONFIG.mode = e.target.value; refresh()
modeOnChange ==
  /\ call = Idle /\ canvas.width > 0
  /\ \E mode \in ModeValues :
       /\ mode # CONFIG.mode
       /\ CONFIG' = [CONFIG EXCEPT !.mode = mode]
  /\ State' = computeState(CONFIG', canvas.width, canvas.height)
  /\ buildDotGrid(CONFIG', canvas)
  /\ UNCHANGED <<canvas, lastUpdate, animationId, rafPending, rafNext, now,
                 fault, started>>

\* the grid spacing slider: CONFIG.grid.spacing = parseInt(value); refresh()
gridSpacingInput ==
  /\ call = Idle /\ canvas.width > 0
  /\ \E val \in SpacingValues :
       /\ val # CONFIG.grid.spacing
       /\ CONFIG' = [CONFIG EXCEPT !.grid.spacing = val]
  /\ State' = computeState(CONFIG', canvas.width, canvas.height)
  /\ buildDotGrid(CONFIG', canvas)
  /\ UNCHANGED <<canvas, lastUpdate, animationId, rafPending, rafNext, now,
                 fault, started>>

\* the inner loop of buildUniformGrid under a spacing that is not positive:
\* the test y < canvas.height * 1.2 holds, as y never grows, and the body
\* pushes a dot; the length of the growing list is not kept
gridLoop ==
  /\ call.fn = "buildUniformGrid"
  /\ call' = [call EXCEPT !.pc = IF @ = "test" THEN "push" ELSE "test"]
  /\ UNCHANGED <<CONFIG, State, canvas, dots, lastUpdate, animationId,
                 rafPending, rafNext, now, fault, started, hist>>

InitGrid ==
  /\ \E mode \in UrlModes, spacing \in GridSpacings :
       CONFIG = [applyUrlParams(DeriveConfig, mode, "")
                   EXCEPT !.grid.spacing = spacing]
  /\ canvas = [width |-> 0, height |-> 0]
  /\ State = [canvasWidth |-> 0, canvasHeight |-> 0,
              animationInterval |-> animationIntervalOf(CONFIG.fps),
              layers |-> << >>, vortexCenters |-> << >>]
  /\ dots = << >>
  /\ lastUpdate = 0
  /\ animationId = Undefined
  /\ rafPending = {}
  /\ rafNext = 1
  /\ now = 0
  /\ call = Idle
  /\ fault = FALSE
  /\ started = FALSE
  /\ hist = NoHist

NextGrid ==
  \/ initCanvas
  \/ windowResize
  \/ refresh
  \/ modeOnChange
  \/ gridSpacingInput
  \/ gridLoop
  \/ placeAttempt
  \/ buildPush
  \/ buildReturn

SpecGrid == InitGrid /\ [][NextGrid]_vars

\* a loop that is running keeps running
SpecGridLive == SpecGrid /\ WF_vars(NextGrid)

Ceil(a, b) == (a + b - 1) \div b
GridBuilt == call = Idle /\ hist.lastOp.name = "buildUniformGrid"

C18_RebuildTerminates == (call.fn = "buildUniformGrid") ~> (call = Idle)

-----------------------------------------------------------------------------
(* animation.js: the edges of the canvas, and the integration step *)

\* the tick of the running call of animate has been executed to its end
TickDone == InAnimate({"request"}) /\ hist.tick.due

\* the dots that wrap around the canvas: the dots of the grid, and the dots
\* of the layer with the smallest radius
WrappingClass(dot) ==
  \/ dot.layer = Null
  \/ /\ HasIndex(State.layers, dot.layer)
     /\ \A li \in DOMAIN State.layers :
          At(State.layers, dot.layer).radius <= State.layers[li].radius

\* C15: at the end of every executed tick, every dot of the wrapping class
\* (grid dots and the dots of the smallest layer) has 0 <= x < canvas width
\* and 0 <= y < canvas height.
C15_WrappedIntoCanvas ==
  TickDone =>
    \A n \in DOMAIN dots :
      WrappingClass(dots[n])
        => /\ dots[n].x >= 0 /\ dots[n].x < canvas.width
           /\ dots[n].y >= 0 /\ dots[n].y < canvas.height

\* C20: at the end of every executed tick, collisions resolved, every dot of
\* a layer that bounces lies at least its radius r inside the canvas:
\* r <= x <= w - r and r <= y <= h - r.
C20_BounceContainment ==
  TickDone =>
    \A n \in DOMAIN dots :
      (~WrappingClass(dots[n]) /\ HasIndex(State.layers, dots[n].layer))
        => LET r == At(State.layers, dots[n].layer).radius
           IN /\ dots[n].x >= r /\ dots[n].x <= canvas.width - r
              /\ dots[n].y >= r /\ dots[n].y <= canvas.height - r

\* the speed multipliers config.js may give the first layer
SpeedValues == {0, 1, 3}

\* the application with a registered field and collisions off, as config.js
\* has them, under every speed multiplier of the first layer
InitStep ==
  /\ \E mode \in UrlModes, speed \in SpeedValues :
       CONFIG = [applyUrlParams(DefaultConfig, mode, "")
                   EXCEPT !.layers[1].speedMultiplier = speed]
  /\ canvas = [width |-> CanvasWidth, height |-> CanvasHeight]
  /\ State = computeState(CONFIG, canvas.width, canvas.height)
  /\ dots \in (IF CONFIG.mode = "layered" THEN LayeredBuilds
               ELSE {buildUniformGrid(CONFIG, canvas)})
  /\ lastUpdate = 0
  /\ animationId = Undefined
  /\ rafPending = {}
  /\ rafNext = 1
  /\ now = 0
  /\ call = Idle
  /\ fault = FALSE
  /\ started = FALSE
  /\ hist = [NoHist EXCEPT !.created = dots]

NextStep ==
  \/ initAnimation
  \/ Frame
  \/ animateEntry
  \/ animateForEach
  \/ handleCollisions
  \/ animateDraw
  \/ animateRequest

SpecStep == InitStep /\ [][NextStep]_vars

\* the configured multiplier of a dot: its layer's speed multiplier in
\* layered mode, 1 for a dot of the grid
ConfiguredSpeed(dot) ==
  IF CONFIG.mode = "layered" /\ dot.layer # Null
  THEN At(CONFIG.layers, dot.layer).speedMultiplier
  ELSE 1

\* C16: the step of an executed tick that integrates a dot stores, for the
\* velocity the field returned, that velocity times the configured speed
\* multiplier of the dot's layer (1 for a grid dot), whatever the configured
\* value, and advances the position by the stored velocity times
\* dt = (timestamp - lastUpdate) / 1000 * 60.
C16_IntegrationStep ==
  [][(InAnimate({"forEach"}) /\ call'.k = call.k + 1)
       => LET n == call.k + 1
              dt == Quot((call.timestamp - lastUpdate) * 60, 1000)
          IN \E field \in FieldValues :
               /\ dots'[n].vx = field[1] * ConfiguredSpeed(dots[n])
               /\ dots'[n].vy = field[2] * ConfiguredSpeed(dots[n])
               /\ dots'[n].x = dots[n].x + dots'[n].vx * dt
               /\ dots'[n].y = dots[n].y + dots'[n].vy * dt]_vars

-----------------------------------------------------------------------------
(* main.js: the URL parameters; canvas.js: the colour of a layered dot *)

\* C17: after start-up CONFIG.currentField is a key registered in FIELDS and
\* CONFIG.mode is "grid" or "layered", whatever the URL parameters were.
C17_UrlParamsValidated ==
  /\ CONFIG.currentField \in RegisteredFields
  /\ CONFIG.mode \in {"grid", "layered"}

\* a colour string, as adjustColorLightness returns it, and not the record
\* {color, colorIndex} of pickColorWithVariation
IsColorString(color) == DOMAIN color = {"hex", "amount"}

\* C19: every dot with a layer index holds a colour string and a palette
\* index that is a valid index into the palette of its layer, after rebuilds
\* and after calls of addDotsToLayer and removeDotsFromLayer.
C19_ResolvedColour ==
  \A n \in DOMAIN dots :
    (dots[n].layer # Null /\ HasIndex(CONFIG.layers, dots[n].layer))
      => /\ IsColorString(dots[n].color)
         /\ HasIndex(At(CONFIG.layers, dots[n].layer).colors,
                     dots[n].colorIndex)

-----------------------------------------------------------------------------
(* ui.js: the global speed slider *)

\* the values of the global speed slider: 1 is normal, 2 is double speed
GlobalSpeedValues == {1, 2}

\* CONFIG.globalSpeed = parseFloat(e.target.value)
globalSpeedInput ==
  /\ call = Idle /\ started
  /\ \E value \in GlobalSpeedValues :
       /\ value # CONFIG.globalSpeed
       /\ CONFIG' = [CONFIG EXCEPT !.globalSpeed = value]
  /\ UNCHANGED <<State, canvas, dots, lastUpdate, animationId, rafPending,
                 rafNext, now, call, fault, started, hist>>

NextSpeed ==
  \/ initAnimation
  \/ Frame
  \/ animateEntry
  \/ animateForEach
  \/ handleCollisions
  \/ animateDraw
  \/ animateRequest
  \/ globalSpeedInput

SpecSpeed == InitStep /\ [][NextSpeed]_vars

\* C21: the displacement of a dot in an executed tick is the velocity the
\* field returned, times the speed of the dot's layer, times dt, times
\* CONFIG.globalSpeed, also in the tick after the slider changed it.
C21_GlobalSpeedScales ==
  [][(InAnimate({"forEach"}) /\ call'.k = call.k + 1)
       => LET n == call.k + 1
              dt == deltaTime(call.timestamp)
              scale == layerSpeed(dots[n]) * dt * CONFIG.globalSpeed
          IN \E field \in FieldValues :
               /\ dots'[n].x - dots[n].x = field[1] * scale
               /\ dots'[n].y - dots[n].y = field[2] * scale]_vars

-----------------------------------------------------------------------------
(* animation.js: the response to a colliding pair *)

\* C22: the step of handleCollisions for a pair leaves a pair at distance 0
\* untouched; a pair at a distance above 0 and below the sum of the collision
\* radii is moved apart by equal and opposite halves of the penetration
\* depth, to the sum of the radii (to within the pixel the halves are rounded
\* to), its velocity components along the normal are exchanged and the
\* tangential components are kept. The response is stated for pairs whose
\* centres lie on a horizontal line: the normal is the x axis and the
\* tangent the y axis.
C22_ElasticPair ==
  [][InAnimate({"pair"})
       => LET A == dots[call.i + 1]
              B == dots[call.j + 1]
              A2 == dots'[call.i + 1]
              B2 == dots'[call.j + 1]
              dx == B.x - A.x
              dy == B.y - A.y
              distSq == dx * dx + dy * dy
              minDist == getCollisionRadius(A) + getCollisionRadius(B)
              after == IF B2.x >= A2.x THEN B2.x - A2.x ELSE A2.x - B2.x
          IN /\ distSq = 0 => (A2 = A /\ B2 = B)
             /\ (distSq > 0 /\ distSq < minDist * minDist /\ dy = 0)
                  => /\ A2.y = A.y /\ B2.y = B.y
                     /\ A.x - A2.x = B2.x - B.x
                     /\ after \in {minDist - 1, minDist}
                     /\ A2.vx = B.vx /\ B2.vx = A.vx
                     /\ A2.vy = A.vy /\ B2.vy = B.vy]_vars

-----------------------------------------------------------------------------
(* ui.js: the dot spacing slider; the two radii of a layer *)

\* the values of the dot spacing slider, in tenths: 0.3 to 2.5
DotSpacingValues == {3, 6, 10, 25}

\* CONFIG.dotSpacing = parseFloat(e.target.value); refresh()
dotSpacingInput ==
  /\ call = Idle /\ canvas.width > 0
  /\ \E value \in DotSpacingValues :
       /\ value # CONFIG.dotSpacing
       /\ CONFIG' = [CONFIG EXCEPT !.dotSpacing = value]
  /\ State' = computeState(CONFIG', canvas.width, canvas.height)
  /\ buildDotGrid(CONFIG', canvas)
  /\ UNCHANGED <<canvas, lastUpdate, animationId, rafPending, rafNext, now,
                 fault, started>>

NextSpacing ==
  \/ initCanvas
  \/ windowResize
  \/ dotSpacingInput
  \/ placeAttempt
  \/ buildPush
  \/ buildReturn

SpecSpacing == InitDerive /\ [][NextSpacing]_vars

\* C23: for every layer and every value of the dot spacing, the collision
\* radius of the layer's dots is smaller than the layer's placement radius.
C23_CollisionBelowPlacement ==
  canvas.width > 0 =>
    \A li \in DOMAIN State.layers :
      getCollisionRadius([layer |-> li - 1]) < getPlacementRadius(li - 1)

-----------------------------------------------------------------------------
(* A layer taken out of the configuration while the application runs *)

\* what changes the configuration from outside between two handlers: the
\* last entry of CONFIG.layers is removed, and the derived state is either
\* recomputed or left as it was
layerRemoved ==
  /\ call = Idle /\ started /\ Len(CONFIG.layers) > 0
  /\ CONFIG' = [CONFIG EXCEPT !.layers = SubSeq(@, 1, Len(@) - 1)]
  /\ State' \in {State, computeState(CONFIG', canvas.width, canvas.height)}
  /\ UNCHANGED <<canvas, dots, lastUpdate, animationId, rafPending, rafNext,
                 now, call, fault, started, hist>>

\* config.js with one dot per layer and collisions on; the page has been
\* open for a while when initAnimation is called, and one incremental call
\* is followed
MissingConfig == [ResizeConfig EXCEPT !.collisionsEnabled = TRUE]

InitMissing ==
  /\ CONFIG = MissingConfig
  /\ canvas = [width |-> CanvasWidth, height |-> CanvasHeight]
  /\ State = computeState(CONFIG, canvas.width, canvas.height)
  /\ dots \in ResizeBuilds
  /\ lastUpdate = 0
  /\ animationId = Undefined
  /\ rafPending = {}
  /\ rafNext = 1
  /\ now = (MaxFrames - 1) * FrameMs
  /\ call = Idle
  /\ fault = FALSE
  /\ started = FALSE
  /\ hist = [NoHist EXCEPT !.created = dots, !.resizes = MaxResizes - 1]

NextMissing ==
  \/ initAnimation
  \/ Frame
  \/ animateEntry
  \/ animateForEach
  \/ handleCollisions
  \/ handleCollisionsPair
  \/ animateDraw
  \/ animateRequest
  \/ layerRemoved
  \/ addDotsToLayer
  \/ placeAttempt
  \/ addPush
  \/ addReturn

SpecMissing == InitMissing /\ [][NextMissing]_vars

\* C24: with a dot whose layer index has no entry in the configuration any
\* more, no step raises a fault; the integration step gives the dot the
\* field's velocity times 1; its collision radius is the grid radius and its
\* placement radius 10; and addDotsToLayer for a layer without an entry
\* returns at once and leaves the dot list as it was.
C24_MissingLayerTolerated ==
  [][/\ ~fault'
     /\ (InAnimate({"forEach"}) /\ call'.k = call.k + 1
           /\ ~HasIndex(CONFIG.layers, dots[call.k + 1].layer))
          => \E field \in FieldValues :
               /\ dots'[call.k + 1].vx = field[1]
               /\ dots'[call.k + 1].vy = field[2]
     /\ \A n \in DOMAIN dots :
          ~HasIndex(State.layers, dots[n].layer)
            => /\ getCollisionRadius(dots[n]) = CONFIG.grid.radius
               /\ getPlacementRadius(dots[n].layer) = 10
     /\ (call = Idle /\ call'.fn = "addDotsToLayer"
           /\ ~HasIndex(State.layers, call'.layerIndex))
          => call'.pc = "return"
     /\ (call.fn = "addDotsToLayer" /\ call' = Idle
           /\ ~HasIndex(State.layers, call.layerIndex))
          => dots' = hist.before]_vars

\* a tick with a collision pass has run to its end on a dot whose layer has
\* no entry left, neither in CONFIG.layers nor in STATE.layers
C24_Witness ==
  /\ TickDone /\ ~fault /\ hist.tick.resolved # {}
  /\ \E n \in DOMAIN dots :
       /\ ~HasIndex(CONFIG.layers, dots[n].layer)
       /\ ~HasIndex(State.layers, dots[n].layer)
       /\ dots[n].x # hist.tick.before[n].x

-----------------------------------------------------------------------------
(* Stopping the loop *)

\* initAnimation is called again only while fewer frames than this have been
\* requested
MaxLoops == 3

\* initAnimation() called once more while a loop runs: a second animate()
\* with its own chain of requested frames
initAnimationAgain ==
  /\ call = Idle /\ started /\ rafNext < MaxLoops
  /\ call' = animateCall(Undefined)
  /\ UNCHANGED <<CONFIG, State, canvas, dots, lastUpdate, animationId,
                 rafPending, rafNext, now, fault, started, hist>>

\* stopAnimation(): cancelAnimationFrame(animationId); an id that is not
\* pending, or undefined, cancels nothing
stopAnimation ==
  /\ call = Idle
  /\ rafPending' = rafPending \ {animationId}
  /\ UNCHANGED <<CONFIG, State, canvas, dots, lastUpdate, animationId,
                 rafNext, now, call, fault, started, hist>>

NextStop ==
  \/ initAnimation
  \/ initAnimationAgain
  \/ Frame
  \/ animateEntry
  \/ animateForEach
  \/ handleCollisions
  \/ animateDraw
  \/ animateRequest
  \/ stopAnimation

SpecStop == InitStep /\ [][NextStop]_vars

\* C25: a call of stopAnimation between two frames leaves no frame
\* requested, so that animate is not called again and no tick changes a dot
\* until initAnimation is called anew, however often initAnimation had been
\* called before.
C25_StopCancelsLoop ==
  [][(call = Idle /\ call' = Idle /\ rafPending' # rafPending)
       => rafPending' = {}]_vars

-----------------------------------------------------------------------------
(* The loop keeps itself going *)

\* what the loop does on its own: the start, the frames the browser
\* delivers and the steps of animate
LoopStep ==
  \/ initAnimation
  \/ Frame
  \/ animateEntry
  \/ animateForEach
  \/ handleCollisions
  \/ animateDraw
  \/ animateRequest

NextLoop == LoopStep \/ fpsInput

\* the browser keeps delivering the requested frames and a started handler
\* runs to its end; nothing obliges the user to move the FPS slider
SpecLoopLive == InitStep /\ [][NextLoop]_vars /\ WF_vars(LoopStep)

\* the last timestamp a frame can carry here
LastFrame == MaxFrames * FrameMs

-----------------------------------------------------------------------------
(* ui.js: the count control of a layer *)

\* The number CONFIG.layers[i].count holds is count - countFrac / 2: count
\* is the number rounded up, which is what every loop "i < count" sees, and
\* countFrac is 1 when the number input delivered a half (its listener
\* clamps parseFloat(value) and does not round)
withFraction(layer) ==
  [count |-> layer.count, countFrac |-> 0, radiusRatio |-> layer.radiusRatio,
   softness |-> layer.softness, speedMultiplier |-> layer.speedMultiplier,
   colors |-> layer.colors]

\* twice the number a layer's count holds
twiceCount(layer) == 2 * layer.count - layer.countFrac

\* twice the values the slider (whole numbers) and the number input deliver
CountInputs == {0, 2, 3}

\* onChange of the count control: diff = val - oldCount;
\* CONFIG.layers[index].count = val; addDotsToLayer(index, diff) or
\* removeDotsFromLayer(index, -diff); drawScene(dots). The loops of both
\* calls run ceil(|diff|) times. STATE is not recomputed. Dots are added
\* while the list holds no more than MaxCount dots afterwards.
countOnChange ==
  /\ call = Idle /\ canvas.width > 0
  /\ \E index \in 0..(Len(CONFIG.layers) - 1), twice \in CountInputs :
       LET diff == twice - twiceCount(At(CONFIG.layers, index))
           times == IF diff > 0 THEN (diff + 1) \div 2 ELSE (1 - diff) \div 2
       IN /\ diff # 0
          /\ CONFIG' = [CONFIG EXCEPT
                          !.layers[index + 1].count = (twice + 1) \div 2,
                          !.layers[index + 1].countFrac = twice % 2]
          /\ IF diff > 0
             THEN /\ Len(dots) + times <= MaxCount
                  /\ call' = [fn |-> "addDotsToLayer",
                              pc |-> IF HasIndex(State.layers, index)
                                     THEN "while" ELSE "return",
                              layerIndex |-> index, count |-> times, i |-> 0,
                              attempts |-> 0, placed |-> FALSE,
                              x |-> Undefined, y |-> Undefined]
                  /\ dots' = dots
                  /\ hist' = [NoHist EXCEPT !.created = dots]
             ELSE /\ dots' = removeLoop(dots, Len(dots) - 1, 0, index, times)
                  /\ call' = Idle
                  /\ hist' = [NoHist EXCEPT
                                !.created = dots',
                                !.lastOp = [name |-> "removeDotsFromLayer",
                                            layerIndex |-> index,
                                            count |-> times]]
  /\ UNCHANGED <<State, canvas, lastUpdate, animationId, rafPending, rafNext,
                 now, fault, started>>

\* config.js with one dot in the first layer and none in the second
CountConfig ==
  [DeriveConfig EXCEPT !.layers = [li \in DOMAIN @ |-> withFraction(@[li])]]

InitCount ==
  /\ \E mode \in UrlModes : CONFIG = applyUrlParams(CountConfig, mode, "")
  /\ canvas = [width |-> 0, height |-> 0]
  /\ State = [canvasWidth |-> 0, canvasHeight |-> 0,
              animationInterval |-> animationIntervalOf(CONFIG.fps),
              layers |-> << >>, vortexCenters |-> << >>]
  /\ dots = << >>
  /\ lastUpdate = 0
  /\ animationId = Undefined
  /\ rafPending = {}
  /\ rafNext = 1
  /\ now = 0
  /\ call = Idle
  /\ fault = FALSE
  /\ started = FALSE
  /\ hist = NoHist

NextCount ==
  \/ initCanvas
  \/ refresh
  \/ modeOnChange
  \/ countOnChange
  \/ placeAttempt
  \/ buildPush
  \/ buildReturn
  \/ addPush
  \/ addReturn

SpecCount == InitCount /\ [][NextCount]_vars

\* C27: in layered mode, whenever no handler is running after initCanvas,
\* the number of dots of every layer is the number CONFIG.layers[i].count
\* holds, after any sequence of rebuilds and changes of the count controls.
C27_CountTracksConfig ==
  (call = Idle /\ canvas.width > 0 /\ CONFIG.mode = "layered")
    => \A li \in DOMAIN CONFIG.layers :
         2 * Cardinality(LayerDots(dots, li - 1)) = twiceCount(CONFIG.layers[li])

-----------------------------------------------------------------------------
(* fields.js: the random walk *)

\* a full turn, Math.PI * 2, in degrees
FullTurn == 360

\* seededRandom(seed) * Math.PI * 2 in whole degrees, for the seeds
\* dotId + timeStep * 100 of the home positions used here; the seed is in
\* tenths
SeededTable ==
  (530 :> 176) @@ (725 :> 314) @@ (764 :> 3) @@ (1530 :> 80) @@
  (1725 :> 303) @@ (1764 :> 166) @@ (2530 :> 79) @@ (2725 :> 160) @@
  (2764 :> 104) @@ (3530 :> 271) @@ (3725 :> 346) @@ (3764 :> 86) @@
  (4530 :> 212) @@ (4725 :> 240) @@ (4764 :> 213) @@ (5530 :> 72) @@
  (5725 :> 179) @@ (5764 :> 257) @@ (6530 :> 262) @@ (6725 :> 154) @@
  (6764 :> 315) @@ (7530 :> 196) @@ (7725 :> 132) @@ (7764 :> 88) @@
  (8530 :> 55) @@ (8725 :> 170) @@ (8764 :> 312) @@ (9530 :> 85) @@
  (9725 :> 349) @@ (9764 :> 357) @@ (10530 :> 177) @@ (10725 :> 47) @@
  (10764 :> 105) @@ (11530 :> 276) @@ (11725 :> 331) @@ (11764 :> 211)

seededRandom(seed) == SeededTable[seed]

\* time buckets followed by the random walk
MaxBuckets == 3

\* period = 1 / turnSpeed, in quarters of a second
walkPeriod == 40 \div CONFIG.fields.randomWalk.turnSpeed

\* angleDiff after the two corrections by a full turn
wrapDiff(diff) ==
  LET down == IF diff > FullTurn \div 2 THEN diff - FullTurn ELSE diff
  IN IF down < -(FullTurn \div 2) THEN down + FullTurn ELSE down

randomWalkField_mut(x0, y0, time) ==
  LET period == walkPeriod
      dotId == 13 * x0 + 27 * y0
      timeStep == time \div period
      timeFrac == time % period
      angle1 == seededRandom(dotId + timeStep * 1000)
      angle2 == seededRandom(dotId + (timeStep + 2) * 1000)
      angleDiff == wrapDiff(angle2 - angle1)
      ease == timeFrac * timeFrac * (3 * period - 2 * timeFrac)
  IN [timeStep |-> timeStep, timeFrac |-> timeFrac, angle1 |-> angle1,
      angle2 |-> angle2, angleDiff |-> angleDiff,
      angle |-> angle1 * period * period * period + angleDiff * ease]
\* randomWalkField for the home position (x0, y0) at the given time, in
\* quarters of a second: its local values and the heading angle, whose cosine
\* and sine times speed are the dx and dy returned. timeFrac is in periods
\* times period, the angle in degrees times period^3.
randomWalkField(x0, y0, time) ==
  LET period == walkPeriod
      dotId == 13 * x0 + 27 * y0
      timeStep == time \div period
      timeFrac == time % period
      angle1 == seededRandom(dotId + timeStep * 1000)
      angle2 == seededRandom(dotId + (timeStep + 1) * 1000)
      angleDiff == wrapDiff(angle2 - angle1)
      ease == timeFrac * timeFrac * (3 * period - 2 * timeFrac)
  IN [timeStep |-> timeStep, timeFrac |-> timeFrac, angle1 |-> angle1,
      angle2 |-> angle2, angleDiff |-> angleDiff,
      angle |-> angle1 * period * period * period + angleDiff * ease]

\* the turn speeds of the slider tried, in tenths
TurnSpeeds == {5, 10}
\* the times a tick asks the field at
WalkTimes == 0..(MaxBuckets * 8)

\* animate asks the field for a dot with home (x0, y0)
randomWalkCall ==
  /\ call = Idle
  /\ \E x0 \in CandX, y0 \in CandY, time \in WalkTimes :
       call' = [fn |-> "randomWalkField", pc |-> "return",
                x0 |-> x0, y0 |-> y0, time |-> time,
                result |-> randomWalkField(x0, y0, time)]
  /\ UNCHANGED <<CONFIG, State, canvas, dots, lastUpdate, animationId,
                 rafPending, rafNext, now, fault, started, hist>>

randomWalkReturn ==
  /\ call.fn = "randomWalkField"
  /\ call' = Idle
  /\ UNCHANGED <<CONFIG, State, canvas, dots, lastUpdate, animationId,
                 rafPending, rafNext, now, fault, started, hist>>

InitWalk ==
  /\ \E turnSpeed \in TurnSpeeds :
       CONFIG = [DefaultConfig EXCEPT !.fields.randomWalk.turnSpeed = turnSpeed]
  /\ canvas = [width |-> CanvasWidth, height |-> CanvasHeight]
  /\ State = computeState(CONFIG, canvas.width, canvas.height)
  /\ dots = << >>
  /\ lastUpdate = 0
  /\ animationId = Undefined
  /\ rafPending = {}
  /\ rafNext = 1
  /\ now = 0
  /\ call = Idle
  /\ fault = FALSE
  /\ started = FALSE
  /\ hist = NoHist

NextWalk ==
  \/ randomWalkCall
  \/ randomWalkReturn

SpecWalk == InitWalk /\ [][NextWalk]_vars

\* the call is made at the first instant of a time bucket after the first
AtBoundary ==
  /\ call.fn = "randomWalkField"
  /\ call.result.timeFrac = 0 /\ call.result.timeStep >= 1

\* the call for the same dot one quarter of a second earlier
Earlier == randomWalkField(call.x0, call.y0, call.time - 1)

\* C28: the heading the random walk returns at the first instant of a time
\* bucket equals, up to full turns, the heading the bucket before was easing
\* towards, and that is the heading the easing arrives at when ease is 1.
C28_HeadingContinuous ==
  AtBoundary
    => LET cube == walkPeriod * walkPeriod * walkPeriod
       IN /\ Earlier.timeStep = call.result.timeStep - 1
          /\ (call.result.angle - Earlier.angle2 * cube) % (FullTurn * cube) = 0
          /\ (Earlier.angle1 + Earlier.angleDiff - Earlier.angle2) % FullTurn = 0

\* a boundary whose bucket before turned the short way round through zero
C28_Witness ==
  /\ AtBoundary
  /\ Earlier.angleDiff # Earlier.angle2 - Earlier.angle1
  /\ Earlier.angle # call.result.angle

-----------------------------------------------------------------------------
(* fields.js: shiver *)

\* const maxDist = 50
maxDist == 50

\* penalty = Math.max(0, (dist - maxDist) / maxDist), times maxDist
shiverPenalty(dist) == Max(0, dist - maxDist)

\* (1 - penalty), the factor of the jitter, times maxDist
shiverFactor(dist) == maxDist - shiverPenalty(dist)

\* shiverField(x, y, {x0, y0}) with the two values of Math.random() - 0.5 in
\* tenths: dist, the jitter factor (times maxDist) and the velocity returned
\* (times 10 * maxDist)
shiverField(x, y, x0, y0, randomX, randomY) ==
  LET cfg == CONFIG.fields.shiver
      distanceX == x - x0
      distanceY == y - y0
      dist == Sqrt(distanceX * distanceX + distanceY * distanceY)
      factor == shiverFactor(dist)
      baseDx == randomX * cfg.amplitude * factor
      baseDy == randomY * cfg.amplitude * factor
      restoreX == (x0 - x) * cfg.restoreStrength * maxDist
      restoreY == (y0 - y) * cfg.restoreStrength * maxDist
  IN [dist |-> dist, factor |-> factor,
      dx |-> restoreX + baseDx, dy |-> restoreY + baseDy]

\* displacements of a dot from its home, and values of Math.random() - 0.5
\* in tenths
ShiverOffsetsX == {-150, -60, 0, 30, 50, 80, 100, 120}
ShiverOffsetsY == {-80, 0, 40}
JitterValues == {-5, 0, 4}

\* animate asks the field for a dot that is away from its home (x0, y0)
shiverCall ==
  /\ call = Idle
  /\ \E x0 \in CandX, y0 \in CandY, offX \in ShiverOffsetsX,
        offY \in ShiverOffsetsY, randomX \in JitterValues,
        randomY \in JitterValues :
       call' = [fn |-> "shiverField", pc |-> "return",
                x |-> x0 + offX, y |-> y0 + offY, x0 |-> x0, y0 |-> y0,
                result |-> shiverField(x0 + offX, y0 + offY, x0, y0,
                                       randomX, randomY)]
  /\ UNCHANGED <<CONFIG, State, canvas, dots, lastUpdate, animationId,
                 rafPending, rafNext, now, fault, started, hist>>

shiverReturn ==
  /\ call.fn = "shiverField"
  /\ call' = Idle
  /\ UNCHANGED <<CONFIG, State, canvas, dots, lastUpdate, animationId,
                 rafPending, rafNext, now, fault, started, hist>>

InitShiver ==
  /\ \E mode \in UrlModes : CONFIG = applyUrlParams(DefaultConfig, mode, "shiver")
  /\ canvas = [width |-> CanvasWidth, height |-> CanvasHeight]
  /\ State = computeState(CONFIG, canvas.width, canvas.height)
  /\ dots = << >>
  /\ lastUpdate = 0
  /\ animationId = Undefined
  /\ rafPending = {}
  /\ rafNext = 1
  /\ now = 0
  /\ call = Idle
  /\ fault = FALSE
  /\ started = FALSE
  /\ hist = NoHist

NextShiver ==
  \/ shiverCall
  \/ shiverReturn

SpecShiver == InitShiver /\ [][NextShiver]_vars

\* the size of a number
Magnitude(n) == IF n < 0 THEN -n ELSE n

\* C29: the factor of the jitter lies between 0 and 1 at every distance of
\* the dot from its home, is 1 up to the distance 50, and its size at a
\* distance beyond 50 is not above its size at any nearer distance.
C29_JitterAttenuated ==
  call.fn = "shiverField"
    => /\ call.result.factor \in 0..maxDist
       /\ call.result.dist <= maxDist => call.result.factor = maxDist
       /\ \A nearer \in 0..call.result.dist :
            call.result.dist > maxDist
              => Magnitude(call.result.factor) <= Magnitude(shiverFactor(nearer))

-----------------------------------------------------------------------------
(* export.js: the animation loop of the exported snippet *)

\* speed = layerConfig ? layerConfig.speedMultiplier : 1.0, with
\* layerConfig = STATE.layers[dot.layer], in layered mode
exportSpeed(dot) ==
  IF CONFIG.mode = "layered" /\ dot.layer # Null
  THEN IF HasIndex(State.layers, dot.layer)
       THEN At(State.layers, dot.layer).speedMultiplier
       ELSE 1
  ELSE 1

\* the bounce along one axis of length limit: the position and twice the
\* velocity
exportBounce(pos, v, radius, limit) ==
  IF pos < radius THEN <<radius, IF v < 0 THEN -v ELSE v>>
  ELSE IF pos > limit - radius
  THEN <<limit - radius, IF v < 0 THEN v ELSE -v>>
  ELSE <<pos, 2 * v>>

\* the body of the loop over the dots of the exported animate for one dot
\* and the velocity the field returned: the position and twice the velocity
\* it leaves
exportIntegrate(dot, field, dt) ==
  LET speed == exportSpeed(dot)
      vx == field[1] * speed
      vy == field[2] * speed
      x == dot.x + vx * dt
      y == dot.y + vy * dt
      w == canvas.width
      h == canvas.height
  IN IF ~(w > 0 /\ h > 0)
     THEN [x |-> x, y |-> y, vx2 |-> 2 * vx, vy2 |-> 2 * vy]
     ELSE IF dot.layer = 2 \/ dot.layer = Null
     THEN [x |-> x % w, y |-> y % h, vx2 |-> 2 * vx, vy2 |-> 2 * vy]
     ELSE LET radius == IF HasIndex(State.layers, dot.layer)
                        THEN At(State.layers, dot.layer).radius ELSE 10
              bx == exportBounce(x, vx, radius, w)
              by == exportBounce(y, vy, radius, h)
          IN [x |-> bx[1], y |-> by[1], vx2 |-> bx[2], vy2 |-> by[2]]

\* C30: with collisions off, the step of an executed tick that the running
\* application makes for a dot leaves the dot with the position and the
\* velocity that the exported snippet's loop leaves it with, for the same
\* configuration, canvas, dot, timestamps and field value.
C30_ExportEquivalence ==
  [][(InAnimate({"forEach"}) /\ call'.k = call.k + 1
        /\ ~CONFIG.collisionsEnabled)
       => LET n == call.k + 1
          IN \E field \in FieldValues :
               LET exported == exportIntegrate(dots[n], field,
                                               deltaTime(call.timestamp))
               IN /\ dots'[n].x = exported.x
                  /\ dots'[n].y = exported.y
                  /\ 2 * dots'[n].vx = exported.vx2
                  /\ 2 * dots'[n].vy = exported.vy2]_vars
====
